---- MODULE Spec2Model ----
(***************************************************************************)
(* Model of github.com/acmacalister/can: the ability vocabulary, the       *)
(* config compiler (Config / buildRole / buildAbility), the decision       *)
(* engine (Can) and the request classifier (BuildFromMethod,               *)
(* PermissionFromPath).                                                    *)
(*                                                                         *)
(* Go strings that the code inspects rune by rune (ability names, URL      *)
(* paths, route-parameter values) are sequences of one-rune strings.       *)
(* Strings the code only compares or concatenates (role names, permission  *)
(* names, routes, resource tags, HTTP methods) are TLA+ strings.           *)
(***************************************************************************)
EXTENDS Integers, Sequences, FiniteSets, TLC

VARIABLES disk, roles, built, call, vcall, pcall, mcall, procs, gcall

vars == <<disk, roles, built, call, vcall, pcall, mcall, procs, gcall>>

(***************************************************************************)
(* Bounds of the model.                                                    *)
(***************************************************************************)
\* longest ability list of a declared permission
MaxAbilities == 2
\* longest routes list of a declared permission
MaxRoutes == 1
\* most segments of a request path
MaxSegments == 4
\* most route-parameter values of a request
MaxValues == 1

(***************************************************************************)
(* Ability: int64 constants declared with iota.                            *)
(***************************************************************************)
Read == 0
Create == 1
Update == 2
Delete == 3
All == 4
Skip == 5
None == 6

\* the declared constants
Abilities == {Read, Create, Update, Delete, All, Skip, None}
\* int64 values that are no declared constant
OutOfRange == {0 - 1, 7}

\* runes: upper-case forms of the letters the ability names use.  U+212A
\* (KELVIN SIGN) and U+0130 (I WITH DOT ABOVE) are upper-case runes whose
\* unicode.ToLower is the ASCII letter.
LowerLetters == <<"a", "c", "d", "e", "i", "k", "l", "m", "n", "o", "p", "r", "s", "t", "u">>
UpperLetters == <<"A", "C", "D", "E", "I", "K", "L", "M", "N", "O", "P", "R", "S", "T", "U">>

\* unicode.ToLower of one rune
ToLowerRune(c) ==
    IF \E i \in 1..Len(UpperLetters) : UpperLetters[i] = c
    THEN LowerLetters[CHOOSE i \in 1..Len(UpperLetters) : UpperLetters[i] = c]
    ELSE IF c = "U+212A" THEN "k"
    ELSE IF c = "U+0130" THEN "i"
    ELSE c

\* strings.ToLower
ToLower(s) == [i \in 1..Len(s) |-> ToLowerRune(s[i])]

sAll == <<"a", "l", "l">>
sRead == <<"r", "e", "a", "d">>
sCreate == <<"c", "r", "e", "a", "t", "e">>
sUpdate == <<"u", "p", "d", "a", "t", "e">>
sDelete == <<"d", "e", "l", "e", "t", "e">>
sSkip == <<"s", "k", "i", "p">>
sNone == <<"n", "o", "n", "e">>

\* func (a Ability) String() string
String(a) ==
    CASE a = All -> sAll
      [] a = Read -> sRead
      [] a = Create -> sCreate
      [] a = Update -> sUpdate
      [] a = Delete -> sDelete
      [] a = Skip -> sSkip
      [] OTHER -> sNone

\* a plausible slip: the switch compares s itself, not strings.ToLower(s)
StringToAbility_caseSensitive(s) ==
    CASE s = sAll -> All
      [] s = sRead -> Read
      [] s = sCreate -> Create
      [] s = sUpdate -> Update
      [] s = sDelete -> Delete
      [] s = sSkip -> Skip
      [] OTHER -> None

\* func StringToAbility(s string) Ability
StringToAbility(s) ==
    LET l == ToLower(s) IN
    CASE l = sAll -> All
      [] l = sRead -> Read
      [] l = sCreate -> Create
      [] l = sUpdate -> Update
      [] l = sDelete -> Delete
      [] l = sSkip -> Skip
      [] OTHER -> None

\* a plausible slip: PATCH left out of the Update case
BuildFromMethod_noPatch(method) ==
    CASE method = "GET" -> Read
      [] method = "POST" -> Create
      [] method = "PUT" -> Update
      [] method = "DELETE" -> Delete
      [] method = "OPTIONS" -> Skip
      [] OTHER -> None

\* func BuildFromMethod(method string) Ability
BuildFromMethod(method) ==
    CASE method = "GET" -> Read
      [] method = "POST" -> Create
      [] method \in {"PUT", "PATCH"} -> Update
      [] method = "DELETE" -> Delete
      [] method = "OPTIONS" -> Skip
      [] OTHER -> None

(***************************************************************************)
(* Permission, Role, Roles and the config compiler.                        *)
(***************************************************************************)
\* m[k] = v on a Go map
MapPut(m, k, v) == [x \in (DOMAIN m) \cup {k} |-> IF x = k THEN v ELSE m[x]]

\* make(map...)
EmptyMap == [x \in {} |-> x]

\* a Role is a Go map: nil or a map from permission name to Permission
NilRole == [isNil |-> TRUE, m |-> EmptyMap]
MakeRole(m) == [isNil |-> FALSE, m |-> m]

\* r[name] on Roles: the zero value (nil) when the name is no key
RolesLookup(r, name) == IF name \in DOMAIN r THEN MakeRole(r[name]) ELSE NilRole

\* func buildAbility(abilities []string) map[Ability]struct{}
buildAbility(abilities) == {StringToAbility(abilities[i]) : i \in 1..Len(abilities)}

\* fmt.Sprintf("%s_%s", j, route)
Sprintf(j, route) == j \o "_" \o route

\* the Permission literal of buildRole
buildPermission(p) == [Abilities |-> buildAbility(p.Abilities), Resource |-> p.Resource]

RECURSIVE putRoutes(_, _, _, _)
\* for _, route := range p.Routes { newRole[Sprintf(j, route)] = per }
putRoutes(newRole, j, routes, per) ==
    IF routes = <<>> THEN newRole
    ELSE putRoutes(MapPut(newRole, Sprintf(j, Head(routes)), per), j, Tail(routes), per)

\* a plausible slip: the route keys get a Permission without the resource tag
buildEntry_noResource(newRole, j, p) ==
    MapPut(putRoutes(newRole, j, p.Routes, [buildPermission(p) EXCEPT !.Resource = ""]),
           j, buildPermission(p))

\* one iteration of the inner loop of buildRole
buildEntry(newRole, j, p) ==
    MapPut(putRoutes(newRole, j, p.Routes, buildPermission(p)), j, buildPermission(p))

RECURSIVE buildNewRole(_, _, _)
\* the inner loop of buildRole, visiting the permissions of v in the order
\* the map iteration yields them
buildNewRole(v, order, newRole) ==
    IF order = <<>> THEN newRole
    ELSE buildNewRole(v, Tail(order), buildEntry(newRole, Head(order), v[Head(order)]))

RECURSIVE buildRole(_, _, _, _)
\* func buildRole(diskYaml DiskRoles, r *Roles): roleOrder and permOrder are
\* the orders in which the two range loops visit the maps
buildRole(diskYaml, r, roleOrder, permOrder) ==
    IF roleOrder = <<>> THEN r
    ELSE LET k == Head(roleOrder) IN
         buildRole(diskYaml,
                   MapPut(r, k, buildNewRole(diskYaml[k], permOrder[k], EmptyMap)),
                   Tail(roleOrder), permOrder)

\* func Config(c DiskRoles) Roles
Config(c, roleOrder, permOrder) == buildRole(c, EmptyMap, roleOrder, permOrder)

\* the orders a range loop over a map with key set S can take
Orders(S) ==
    {o \in [1..Cardinality(S) -> S] : \A a, b \in 1..Cardinality(S) : a # b => o[a] # o[b]}

(***************************************************************************)
(* The decision engine.                                                    *)
(***************************************************************************)
\* compare is nil, or a func() bool with a fixed return value
Predicates == {"nil", "true", "false"}
Invoke(compare) == compare = "true"

\* a plausible slip: no short circuit on All or Skip (the switch decides)
Can_noShortCircuit(role, permission, ability, compare) ==
    IF role.isNil THEN FALSE
    ELSE IF permission \notin DOMAIN role.m THEN FALSE
    ELSE LET perm == role.m[permission]
             ok == ability \in perm.Abilities
             okAll == All \in perm.Abilities
             okSkip == Skip \in perm.Abilities
         IN IF ~ok /\ ~okAll /\ ~okSkip THEN FALSE
            ELSE IF ability \in {All, Skip} THEN TRUE
            ELSE IF ability \in {Read, Create, Update, Delete}
                 THEN (IF compare = "nil" THEN FALSE ELSE Invoke(compare))
            ELSE FALSE

\* a plausible slip: a granted concrete ability is allowed without compare
Can_ignoresCompare(role, permission, ability, compare) ==
    IF role.isNil THEN FALSE
    ELSE IF permission \notin DOMAIN role.m THEN FALSE
    ELSE LET perm == role.m[permission]
             ok == ability \in perm.Abilities
             okAll == All \in perm.Abilities
             okSkip == Skip \in perm.Abilities
         IN IF ~ok /\ ~okAll /\ ~okSkip THEN FALSE
            ELSE IF okAll \/ okSkip THEN TRUE
            ELSE IF ability \in {All, Skip} THEN TRUE
            ELSE IF ability \in {Read, Create, Update, Delete} THEN TRUE
            ELSE FALSE

\* a plausible slip: the membership test of the requested ability is left out
Can_noMembership(role, permission, ability, compare) ==
    IF role.isNil THEN FALSE
    ELSE IF permission \notin DOMAIN role.m THEN FALSE
    ELSE LET perm == role.m[permission]
             okAll == All \in perm.Abilities
             okSkip == Skip \in perm.Abilities
         IN IF okAll \/ okSkip THEN TRUE
            ELSE IF ability \in {All, Skip} THEN TRUE
            ELSE IF ability \in {Read, Create, Update, Delete}
                 THEN (IF compare = "nil" THEN FALSE ELSE Invoke(compare))
            ELSE FALSE

\* a plausible slip: a nil compare counts as no objection
Can_nilAllows(role, permission, ability, compare) ==
    IF role.isNil THEN FALSE
    ELSE IF permission \notin DOMAIN role.m THEN FALSE
    ELSE LET perm == role.m[permission]
             ok == ability \in perm.Abilities
             okAll == All \in perm.Abilities
             okSkip == Skip \in perm.Abilities
         IN IF ~ok /\ ~okAll /\ ~okSkip THEN FALSE
            ELSE IF okAll \/ okSkip THEN TRUE
            ELSE IF ability \in {All, Skip} THEN TRUE
            ELSE IF ability \in {Read, Create, Update, Delete}
                 THEN (IF compare = "nil" THEN TRUE ELSE Invoke(compare))
            ELSE FALSE

\* a plausible slip: the final fallback returns true
Can_fallbackTrue(role, permission, ability, compare) ==
    IF role.isNil THEN FALSE
    ELSE IF permission \notin DOMAIN role.m THEN FALSE
    ELSE LET perm == role.m[permission]
             ok == ability \in perm.Abilities
             okAll == All \in perm.Abilities
             okSkip == Skip \in perm.Abilities
         IN IF ~ok /\ ~okAll /\ ~okSkip THEN FALSE
            ELSE IF okAll \/ okSkip THEN TRUE
            ELSE IF ability \in {All, Skip} THEN TRUE
            ELSE IF ability \in {Read, Create, Update, Delete}
                 THEN (IF compare = "nil" THEN FALSE ELSE Invoke(compare))
            ELSE TRUE

\* a plausible slip: None in the set is read as an explicit denial
Can_noneDenies(role, permission, ability, compare) ==
    IF role.isNil THEN FALSE
    ELSE IF permission \notin DOMAIN role.m THEN FALSE
    ELSE LET perm == role.m[permission]
             ok == ability \in perm.Abilities
             okAll == All \in perm.Abilities
             okSkip == Skip \in perm.Abilities
         IN IF None \in perm.Abilities THEN FALSE
            ELSE IF ~ok /\ ~okAll /\ ~okSkip THEN FALSE
            ELSE IF okAll \/ okSkip THEN TRUE
            ELSE IF ability \in {All, Skip} THEN TRUE
            ELSE IF ability \in {Read, Create, Update, Delete}
                 THEN (IF compare = "nil" THEN FALSE ELSE Invoke(compare))
            ELSE FALSE

\* func Can(ctx, role Role, permission string, ability Ability, compare func() bool) bool
Can(role, permission, ability, compare) ==
    IF role.isNil THEN FALSE
    ELSE IF permission \notin DOMAIN role.m THEN FALSE
    ELSE LET perm == role.m[permission]
             ok == ability \in perm.Abilities
             okAll == All \in perm.Abilities
             okSkip == Skip \in perm.Abilities
         IN IF ~ok /\ ~okAll /\ ~okSkip THEN FALSE
            ELSE IF okAll \/ okSkip THEN TRUE
            ELSE IF ability \in {All, Skip} THEN TRUE
            ELSE IF ability \in {Read, Create, Update, Delete}
                 THEN (IF compare = "nil" THEN FALSE ELSE Invoke(compare))
            ELSE FALSE

(***************************************************************************)
(* Inputs: the disk roles handed to Config and the arguments of Can.       *)
(***************************************************************************)
SeqsUpTo(S, n) == UNION {[1..k -> S] : k \in 0..n}

sManage == <<"m", "a", "n", "a", "g", "e">>

\* ability strings of the config: the six names and one unknown name
AbilityStrings == {sRead, sCreate, sUpdate, sDelete, sAll, sSkip, sManage}

\* routes of "users": "users_42" is also a declared name
UsersRoutes == {"42", "42_x"}
\* routes of "users_42": "users_42_x" is also a key derived from "users"
Users42Routes == {"x"}

DiskPermission(abilities, routes, resource) ==
    [Abilities |-> abilities, Routes |-> routes, Resource |-> resource]

\* one permission with every ability list, and an empty role
AbilityDisks ==
    {("admin" :> ("users" :> DiskPermission(l, <<>>, ""))) @@ ("user" :> EmptyMap) :
        l \in SeqsUpTo(AbilityStrings, MaxAbilities)}

UsersDecls ==
    {DiskPermission(<<a>>, rs, "user") :
        a \in {sRead, sAll}, rs \in SeqsUpTo(UsersRoutes, MaxRoutes)}

Users42Decls ==
    {DiskPermission(<<a>>, rs, res) :
        a \in {sCreate, sManage}, rs \in SeqsUpTo(Users42Routes, MaxRoutes),
        res \in {"", "account"}}

\* one role declaring "users", "users_42", both or neither, with routes whose
\* derived keys may collide
RouteDisks ==
    {"admin" :> EmptyMap}
    \cup {"admin" :> ("users" :> u) : u \in UsersDecls}
    \cup {"admin" :> ("users_42" :> w) : w \in Users42Decls}
    \cup {"admin" :> (("users" :> u) @@ ("users_42" :> w)) : u \in UsersDecls, w \in Users42Decls}

DiskInputs == AbilityDisks \cup RouteDisks

RoleNames == {"admin", "user"}
PermissionNames == {"users", "users_42", "users_42_x", "posts"}

NoCall ==
    [op |-> "none", roleName |-> "", role |-> NilRole, permission |-> "",
     ability |-> None, compare |-> "nil", ret |-> FALSE]

NoVCall == [op |-> "none", a |-> None, s |-> <<>>, m |-> "", retA |-> None, retS |-> <<>>]

NoPCall == [op |-> "none", p |-> <<>>, values |-> <<>>, panic |-> FALSE, ret |-> <<>>]

\* no call of the Manage-era engine yet
NoMCall ==
    [op |-> "none", role |-> NilRole, permission |-> "", ability |-> 0,
     compare |-> "nil", can |-> "nil", ret |-> FALSE]

\* the callers that share one Roles value
Callers == {"c1", "c2"}

\* a caller that is not inside Can
IdleProc ==
    [pc |-> "idle", roleName |-> "", permission |-> "", ability |-> None,
     compare |-> "nil", invoked |-> 0, ret |-> FALSE]

IdleProcs == [c \in Callers |-> IdleProc]

\* no pair of Can calls around a grant yet
NoGCall ==
    [op |-> "none", kind |-> "", role |-> NilRole, after |-> NilRole, permission |-> "",
     ability |-> None, compare |-> "nil", ret |-> FALSE, ret2 |-> FALSE]

(***************************************************************************)
(* Specification Spec: compile a config, then decide requests on it.       *)
(***************************************************************************)
Init ==
    /\ disk \in DiskInputs
    /\ roles = EmptyMap
    /\ built = FALSE
    /\ call = NoCall
    /\ vcall = NoVCall
    /\ pcall = NoPCall
    /\ mcall = NoMCall
    /\ procs = IdleProcs
    /\ gcall = NoGCall

\* r := Config(disk)
DoConfig ==
    /\ \E roleOrder \in Orders(DOMAIN disk) :
       \E permOrder \in {po \in [DOMAIN disk -> UNION {Orders(DOMAIN disk[k]) : k \in DOMAIN disk}] :
                            \A k \in DOMAIN disk : po[k] \in Orders(DOMAIN disk[k])} :
          roles' = Config(disk, roleOrder, permOrder)
    /\ built' = TRUE
    /\ UNCHANGED <<disk, call, vcall, pcall, mcall, procs, gcall>>

\* Can(ctx, r[name], permission, ability, compare) on the compiled roles,
\* one request at a time
DoCan ==
    /\ built
    /\ call.op = "none"
    /\ \E name \in RoleNames, permission \in PermissionNames,
          ability \in Abilities, compare \in Predicates :
          call' = [op |-> "Can", roleName |-> name, role |-> RolesLookup(roles, name),
                   permission |-> permission, ability |-> ability, compare |-> compare,
                   ret |-> Can(RolesLookup(roles, name), permission, ability, compare)]
    /\ UNCHANGED <<disk, roles, built, vcall, pcall, mcall, procs, gcall>>

\* the caller has taken the answer of Can; the next request may come
Return ==
    /\ call.op = "Can"
    /\ call' = NoCall
    /\ UNCHANGED <<disk, roles, built, vcall, pcall, mcall, procs, gcall>>

Next == DoConfig \/ DoCan \/ Return

Spec == Init /\ [][Next]_vars

(***************************************************************************)
(* Specification SpecVocab: the ability vocabulary and BuildFromMethod.    *)
(***************************************************************************)
\* the upper-case forms of a lower-case letter
UpperForms(c) ==
    {UpperLetters[i] : i \in {n \in 1..Len(LowerLetters) : LowerLetters[n] = c}}
    \cup (IF c = "k" THEN {"U+212A"} ELSE {})
    \cup (IF c = "i" THEN {"U+0130"} ELSE {})

RECURSIVE CaseMixes(_)
\* every spelling of the word w in a mix of upper and lower case
CaseMixes(w) ==
    IF w = <<>> THEN {<<>>}
    ELSE {<<c>> \o t : c \in {Head(w)} \cup UpperForms(Head(w)), t \in CaseMixes(Tail(w))}

Granting == {All, Read, Create, Update, Delete, Skip}

\* the canonical lower-case name of each of the six abilities
CanonicalName(a) ==
    CASE a = All -> <<"a", "l", "l">>
      [] a = Read -> <<"r", "e", "a", "d">>
      [] a = Create -> <<"c", "r", "e", "a", "t", "e">>
      [] a = Update -> <<"u", "p", "d", "a", "t", "e">>
      [] a = Delete -> <<"d", "e", "l", "e", "t", "e">>
      [] a = Skip -> <<"s", "k", "i", "p">>

\* strings that spell none of the six names
OtherStrings ==
    {<<>>, sNone, <<"N", "O", "N", "E">>, sManage, <<"r", "e", "a">>,
     <<"r", "e", "a", "d", "s">>, <<" ", "r", "e", "a", "d">>, <<"r", "e", "a", "d", " ">>,
     <<"r", "e", "a", "d", "a", "l", "l">>, <<"a", "1", "1">>, <<"4">>, <<"*">>}

StringInputs == UNION {CaseMixes(CanonicalName(a)) : a \in Granting} \cup OtherStrings

Methods ==
    {"GET", "POST", "PUT", "PATCH", "DELETE", "OPTIONS", "TRACE", "HEAD", "CONNECT", "",
     "get", "post", "put", "patch", "delete", "options", "Get", "ALL"}

InitVocab ==
    /\ disk = EmptyMap
    /\ roles = EmptyMap
    /\ built = FALSE
    /\ call = NoCall
    /\ vcall = NoVCall
    /\ pcall = NoPCall
    /\ mcall = NoMCall
    /\ procs = IdleProcs
    /\ gcall = NoGCall

\* a.String()
DoString ==
    /\ \E a \in Abilities \cup OutOfRange :
          vcall' = [NoVCall EXCEPT !.op = "String", !.a = a, !.retS = String(a)]
    /\ UNCHANGED <<disk, roles, built, call, pcall, mcall, procs, gcall>>

\* StringToAbility(s)
DoStringToAbility ==
    /\ \E s \in StringInputs :
          vcall' = [NoVCall EXCEPT !.op = "StringToAbility", !.s = s, !.retA = StringToAbility(s)]
    /\ UNCHANGED <<disk, roles, built, call, pcall, mcall, procs, gcall>>

\* StringToAbility(a.String())
DoRoundTrip ==
    /\ \E a \in Abilities \cup OutOfRange :
          vcall' = [NoVCall EXCEPT !.op = "RoundTrip", !.a = a, !.s = String(a),
                                   !.retA = StringToAbility(String(a))]
    /\ UNCHANGED <<disk, roles, built, call, pcall, mcall, procs, gcall>>

\* BuildFromMethod(method)
DoBuildFromMethod ==
    /\ \E method \in Methods :
          vcall' = [NoVCall EXCEPT !.op = "BuildFromMethod", !.m = method,
                                   !.retA = BuildFromMethod(method)]
    /\ UNCHANGED <<disk, roles, built, call, pcall, mcall, procs, gcall>>

NextVocab == DoString \/ DoStringToAbility \/ DoRoundTrip \/ DoBuildFromMethod

SpecVocab == InitVocab /\ [][NextVocab]_vars

(***************************************************************************)
(* Specification SpecPath: PermissionFromPath on a request path and the    *)
(* route-parameter values of the chi routing context.                      *)
(***************************************************************************)
RECURSIVE ReplaceAll(_, _, _)
\* strings.ReplaceAll(s, old, new) for a non-empty old: the non-overlapping
\* instances of old, found from the left
ReplaceAll(s, old, new) ==
    IF Len(s) < Len(old) THEN s
    ELSE IF SubSeq(s, 1, Len(old)) = old
         THEN new \o ReplaceAll(SubSeq(s, Len(old) + 1, Len(s)), old, new)
         ELSE <<Head(s)>> \o ReplaceAll(Tail(s), old, new)

RECURSIVE removeValues(_, _)
\* the loop over c.URLParams.Values, which skips the empty value
removeValues(p, values) ==
    IF values = <<>> THEN p
    ELSE IF Head(values) = <<>> THEN removeValues(p, Tail(values))
    ELSE removeValues(ReplaceAll(p, Head(values), <<>>), Tail(values))

sIndex == <<"i", "n", "d", "e", "x">>

\* a slice expression out of range: the call panics and returns nothing
Panic == [panic |-> TRUE, ret |-> <<>>]
Returns(s) == [panic |-> FALSE, ret |-> s]

\* func PermissionFromPath(r *http.Request) string, on r.URL.Path and the
\* route-parameter values
PermissionFromPath(path, values) ==
    IF path = <<"/">> THEN Returns(sIndex)
    ELSE IF Len(path) < 3 THEN Panic
    ELSE LET p1 == IF SubSeq(path, 1, 3) = <<"/", "v", "1">>
                   THEN SubSeq(path, 4, Len(path)) ELSE path
             p2 == removeValues(p1, values)
         IN IF Len(p2) = 0 THEN Panic
            ELSE LET p3 == IF p2[Len(p2)] = "/" THEN SubSeq(p2, 1, Len(p2) - 1) ELSE p2
                 IN IF Len(p3) = 0 THEN Panic
                    ELSE Returns(ReplaceAll(SubSeq(p3, 2, Len(p3)), <<"/">>, <<"_">>))

sV1 == <<"v", "1">>
sV10 == <<"v", "1", "0">>
sUsers == <<"u", "s", "e", "r", "s">>
s42 == <<"4", "2">>
sComments == <<"c", "o", "m", "m", "e", "n", "t", "s">>
sA == <<"a">>

Segments == {sV1, sV10, sUsers, s42, sComments, sA}

RECURSIVE Join(_)
\* the path with the segments segs, each after a slash
Join(segs) == IF segs = <<>> THEN <<>> ELSE <<"/">> \o Head(segs) \o Join(Tail(segs))

\* request paths: the root, and up to MaxSegments segments with or without
\* a trailing slash
Paths ==
    {<<"/">>}
    \cup {Join(segs) : segs \in SeqsUpTo(Segments, MaxSegments) \ {<<>>}}
    \cup {Join(segs) \o <<"/">> : segs \in SeqsUpTo(Segments, MaxSegments) \ {<<>>}}

\* values the router can have captured
ParamValues == {s42, <<>>}

InitPath ==
    /\ disk = EmptyMap
    /\ roles = EmptyMap
    /\ built = FALSE
    /\ call = NoCall
    /\ vcall = NoVCall
    /\ pcall = NoPCall
    /\ mcall = NoMCall
    /\ procs = IdleProcs
    /\ gcall = NoGCall

\* PermissionFromPath(r), one request at a time
DoPermissionFromPath ==
    /\ pcall.op = "none"
    /\ \E path \in Paths, values \in SeqsUpTo(ParamValues, MaxValues) :
          pcall' = [op |-> "PermissionFromPath", p |-> path, values |-> values,
                    panic |-> PermissionFromPath(path, values).panic,
                    ret |-> PermissionFromPath(path, values).ret]
    /\ UNCHANGED <<disk, roles, built, call, vcall, mcall, procs, gcall>>

\* the caller has taken the key (or recovered from the panic)
PathReturn ==
    /\ pcall.op = "PermissionFromPath"
    /\ pcall' = NoPCall
    /\ UNCHANGED <<disk, roles, built, call, vcall, mcall, procs, gcall>>

NextPath == DoPermissionFromPath \/ PathReturn

SpecPath == InitPath /\ [][NextPath]_vars

(***************************************************************************)
(* Specification SpecManage: the engines of the Manage era.  DefaultCan    *)
(* and its Can wrapper have the abilities Manage, ReadAll, Read, Create,   *)
(* Update, Delete; the later Can with Manage has no ReadAll, and its       *)
(* StringToAbility yields -1 for an unknown name.                          *)
(***************************************************************************)
Manage == 0
ReadAll == 1
DefaultRead == 2
DefaultCreate == 3
DefaultUpdate == 4
DefaultDelete == 5
\* "Just create new constants with the can.Ability type"
CustomAbility == 6

ManageRead == 1
ManageCreate == 2
ManageUpdate == 3
ManageDelete == 4
\* what StringToAbility of that era returns for an unknown name
ManageUnknown == 0 - 1

DefaultAbilities ==
    {Manage, ReadAll, DefaultRead, DefaultCreate, DefaultUpdate, DefaultDelete, CustomAbility}

ManageAbilities ==
    {Manage, ManageRead, ManageCreate, ManageUpdate, ManageDelete, ManageUnknown}

\* func DefaultCan(ctx, role *Role, compare func() bool, permission string, ability Ability) bool
DefaultCan(role, compare, permission, ability) ==
    IF role.isNil THEN FALSE
    ELSE IF permission \notin DOMAIN role.m THEN FALSE
    ELSE IF ability \notin role.m[permission].Abilities THEN FALSE
    ELSE IF ability = Manage THEN TRUE
    ELSE IF ability \in {DefaultRead, ReadAll, DefaultCreate, DefaultUpdate, DefaultDelete}
         THEN (IF compare = "nil" THEN FALSE ELSE Invoke(compare))
    ELSE FALSE

\* a CanFn is nil or the CustomAuthorization of the README, which allows all
CanFns == {"nil", "CustomAuthorization"}

\* func Can(ctx, role *Role, compare func() bool, permission string, ability Ability, can CanFn) bool
CanWithFn(role, compare, permission, ability, can) ==
    IF can = "nil" THEN DefaultCan(role, compare, permission, ability)
    ELSE TRUE

\* func Can(ctx, role *Role, permission string, ability Ability, compare func() bool) bool
\* of the version whose full-control ability is Manage
ManageCan(role, permission, ability, compare) ==
    IF role.isNil THEN FALSE
    ELSE IF permission \notin DOMAIN role.m THEN FALSE
    ELSE IF ability \notin role.m[permission].Abilities THEN FALSE
    ELSE IF ability = Manage THEN TRUE
    ELSE IF ability \in {ManageRead, ManageCreate, ManageUpdate, ManageDelete}
         THEN (IF compare = "nil" THEN FALSE ELSE Invoke(compare))
    ELSE FALSE

\* *Role values: nil, a role without permissions, a role whose permission
\* "users" holds any set of the abilities
ManageRoles(abilities) ==
    {NilRole, MakeRole(EmptyMap)}
    \cup {MakeRole("users" :> [Abilities |-> S]) : S \in SUBSET abilities}

ManagePermissionNames == {"users", "posts"}

InitManage ==
    /\ disk = EmptyMap
    /\ roles = EmptyMap
    /\ built = FALSE
    /\ call = NoCall
    /\ vcall = NoVCall
    /\ pcall = NoPCall
    /\ mcall = NoMCall
    /\ procs = IdleProcs
    /\ gcall = NoGCall

\* Can(ctx, role, compare, permission, ability, can), which is DefaultCan
\* when can is nil
DoDefaultCan ==
    /\ mcall.op = "none"
    /\ \E role \in ManageRoles(DefaultAbilities), compare \in Predicates,
          permission \in ManagePermissionNames, ability \in DefaultAbilities, can \in CanFns :
          mcall' = [op |-> "DefaultCan", role |-> role, permission |-> permission,
                    ability |-> ability, compare |-> compare, can |-> can,
                    ret |-> CanWithFn(role, compare, permission, ability, can)]
    /\ UNCHANGED <<disk, roles, built, call, vcall, pcall, procs, gcall>>

\* Can(ctx, role, permission, ability, compare) of the version with Manage
DoManageCan ==
    /\ mcall.op = "none"
    /\ \E role \in ManageRoles(ManageAbilities), compare \in Predicates,
          permission \in ManagePermissionNames, ability \in ManageAbilities :
          mcall' = [op |-> "ManageCan", role |-> role, permission |-> permission,
                    ability |-> ability, compare |-> compare, can |-> "nil",
                    ret |-> ManageCan(role, permission, ability, compare)]
    /\ UNCHANGED <<disk, roles, built, call, vcall, pcall, procs, gcall>>

\* the caller has taken the answer
ManageReturn ==
    /\ mcall.op # "none"
    /\ mcall' = NoMCall
    /\ UNCHANGED <<disk, roles, built, call, vcall, pcall, procs, gcall>>

NextManage == DoDefaultCan \/ DoManageCan \/ ManageReturn

SpecManage == InitManage /\ [][NextManage]_vars

(***************************************************************************)
(* Specification SpecConc: two callers run Can, statement by statement,    *)
(* on the one Roles value that Config returned.                            *)
(***************************************************************************)
\* a config whose role has a permission with All, with Read alone, with Skip
\* and with an unknown ability name
ConcDisk ==
    "admin" :> (("users" :> DiskPermission(<<sAll>>, <<>>, "user"))
                @@ ("posts" :> DiskPermission(<<sRead>>, <<>>, ""))
                @@ ("options" :> DiskPermission(<<sSkip>>, <<>>, ""))
                @@ ("misc" :> DiskPermission(<<sManage>>, <<>>, "")))

\* role name and permission name of a request; the role "user" is unknown
ConcTargets ==
    {<<"admin", "users">>, <<"admin", "posts">>, <<"admin", "options">>,
     <<"admin", "misc">>, <<"admin", "nope">>, <<"user", "users">>}

ConcAbilities == {Read, Create, All, None}

InitConc ==
    /\ disk = ConcDisk
    /\ roles = EmptyMap
    /\ built = FALSE
    /\ call = NoCall
    /\ vcall = NoVCall
    /\ pcall = NoPCall
    /\ mcall = NoMCall
    /\ procs = IdleProcs
    /\ gcall = NoGCall

\* r := Config(disk), once, before any request
ConfigOnce == ~built /\ DoConfig

\* the caller c leaves Can with the answer ret
Done(c, ret) == [procs EXCEPT ![c].pc = "done", ![c].ret = ret]

\* the role argument of the caller c: r[roleName]
RoleOf(c) == RolesLookup(roles, procs[c].roleName)

\* the ability set of the permission the caller c looked up
AbilitiesOf(c) == roles[procs[c].roleName][procs[c].permission].Abilities

\* the caller c calls Can(ctx, r[name], permission, ability, compare)
CanEnter(c) ==
    /\ built
    /\ procs[c].pc = "idle"
    /\ \E target \in ConcTargets, ability \in ConcAbilities, compare \in Predicates :
          procs' = [procs EXCEPT ![c] =
                       [pc |-> "checkRole", roleName |-> target[1], permission |-> target[2],
                        ability |-> ability, compare |-> compare, invoked |-> 0,
                        ret |-> FALSE]]
    /\ UNCHANGED <<disk, roles, built, call, vcall, pcall, mcall, gcall>>

\* if role == nil { return false }
CheckRole(c) ==
    /\ procs[c].pc = "checkRole"
    /\ procs' = IF RoleOf(c).isNil THEN Done(c, FALSE)
                ELSE [procs EXCEPT ![c].pc = "lookup"]
    /\ UNCHANGED <<disk, roles, built, call, vcall, pcall, mcall, gcall>>

\* perm, ok := role[permission]; if !ok { return false }
Lookup(c) ==
    /\ procs[c].pc = "lookup"
    /\ procs' = IF procs[c].permission \notin DOMAIN RoleOf(c).m THEN Done(c, FALSE)
                ELSE [procs EXCEPT ![c].pc = "membership"]
    /\ UNCHANGED <<disk, roles, built, call, vcall, pcall, mcall, gcall>>

\* a plausible slip: the ability that All stands for is cached in the set
Membership_cachesAll(c) ==
    /\ procs[c].pc = "membership"
    /\ LET ok == procs[c].ability \in AbilitiesOf(c)
           okAll == All \in AbilitiesOf(c)
           okSkip == Skip \in AbilitiesOf(c)
       IN /\ procs' = IF ~ok /\ ~okAll /\ ~okSkip THEN Done(c, FALSE)
                      ELSE IF okAll \/ okSkip THEN Done(c, TRUE)
                      ELSE [procs EXCEPT ![c].pc = "switch"]
          /\ roles' = IF okAll
                      THEN [roles EXCEPT ![procs[c].roleName][procs[c].permission].Abilities =
                                            @ \cup {procs[c].ability}]
                      ELSE roles
    /\ UNCHANGED <<disk, built, call, vcall, pcall, mcall, gcall>>

\* the three map reads, the denial when none holds and the short circuit on
\* All or Skip
Membership(c) ==
    /\ procs[c].pc = "membership"
    /\ LET ok == procs[c].ability \in AbilitiesOf(c)
           okAll == All \in AbilitiesOf(c)
           okSkip == Skip \in AbilitiesOf(c)
       IN procs' = IF ~ok /\ ~okAll /\ ~okSkip THEN Done(c, FALSE)
                   ELSE IF okAll \/ okSkip THEN Done(c, TRUE)
                   ELSE [procs EXCEPT ![c].pc = "switch"]
    /\ UNCHANGED <<disk, roles, built, call, vcall, pcall, mcall, gcall>>

\* a plausible slip: the switch has a default case that asks compare
Switch_defaultCompares(c) ==
    /\ procs[c].pc = "switch"
    /\ procs' = IF procs[c].ability \in {All, Skip} THEN Done(c, TRUE)
                ELSE IF procs[c].ability \in {Read, Create, Update, Delete}
                        /\ procs[c].compare = "nil" THEN Done(c, FALSE)
                ELSE [procs EXCEPT ![c].pc = "compare"]
    /\ UNCHANGED <<disk, roles, built, call, vcall, pcall, mcall, gcall>>

\* switch ability: true for All and Skip, false for a concrete ability with
\* a nil compare, false for anything else
Switch(c) ==
    /\ procs[c].pc = "switch"
    /\ procs' = IF procs[c].ability \in {All, Skip} THEN Done(c, TRUE)
                ELSE IF procs[c].ability \in {Read, Create, Update, Delete}
                     THEN (IF procs[c].compare = "nil" THEN Done(c, FALSE)
                           ELSE [procs EXCEPT ![c].pc = "compare"])
                ELSE Done(c, FALSE)
    /\ UNCHANGED <<disk, roles, built, call, vcall, pcall, mcall, gcall>>

\* return compare()
CallCompare(c) ==
    /\ procs[c].pc = "compare"
    /\ procs' = [procs EXCEPT ![c].pc = "done",
                              ![c].invoked = @ + 1,
                              ![c].ret = Invoke(procs[c].compare)]
    /\ UNCHANGED <<disk, roles, built, call, vcall, pcall, mcall, gcall>>

\* the caller c has taken the answer
CanExit(c) ==
    /\ procs[c].pc = "done"
    /\ procs' = [procs EXCEPT ![c] = IdleProc]
    /\ UNCHANGED <<disk, roles, built, call, vcall, pcall, mcall, gcall>>

NextConc ==
    \/ ConfigOnce
    \/ \E c \in Callers : CanEnter(c)
    \/ \E c \in Callers : CheckRole(c)
    \/ \E c \in Callers : Lookup(c)
    \/ \E c \in Callers : Membership(c)
    \/ \E c \in Callers : Switch(c)
    \/ \E c \in Callers : CallCompare(c)
    \/ \E c \in Callers : CanExit(c)

SpecConc == InitConc /\ [][NextConc]_vars

(***************************************************************************)
(* Specification SpecGrant: Can on a compiled role, one more grant written *)
(* into the role, and the same Can call again.                             *)
(***************************************************************************)
\* perm.Abilities[a] = struct{}{} on the permission q of the role
AddAbility(role, q, a) == [role EXCEPT !.m[q].Abilities = @ \cup {a}]

\* role[name] = perm for a name the role does not have yet
AddPermission(role, name, perm) == [role EXCEPT !.m = MapPut(role.m, name, perm)]

GrantPermissionNames == {"users", "posts"}

\* the roles one grant away from the role
GrantsMore(role) ==
    {[kind |-> "ability", after |-> AddAbility(role, q, a)] :
        q \in DOMAIN role.m, a \in Abilities}
    \cup {[kind |-> "permission",
           after |-> AddPermission(role, n, [Abilities |-> S, Resource |-> ""])] :
             n \in GrantPermissionNames \ DOMAIN role.m, S \in {{All}, {Read}}}

InitGrant ==
    /\ disk \in AbilityDisks
    /\ roles = EmptyMap
    /\ built = FALSE
    /\ call = NoCall
    /\ vcall = NoVCall
    /\ pcall = NoPCall
    /\ mcall = NoMCall
    /\ procs = IdleProcs
    /\ gcall = NoGCall

\* Can(ctx, role, permission, ability, compare) before and after one grant
\* is added to the role
DoGrantMore ==
    /\ built
    /\ gcall.op = "none"
    /\ \E name \in DOMAIN roles, permission \in GrantPermissionNames,
          ability \in Abilities, compare \in Predicates :
       \E g \in GrantsMore(RolesLookup(roles, name)) :
          gcall' = [op |-> "GrantMore", kind |-> g.kind,
                    role |-> RolesLookup(roles, name), after |-> g.after,
                    permission |-> permission, ability |-> ability, compare |-> compare,
                    ret |-> Can(RolesLookup(roles, name), permission, ability, compare),
                    ret2 |-> Can(g.after, permission, ability, compare)]
    /\ UNCHANGED <<disk, roles, built, call, vcall, pcall, mcall, procs>>

\* the caller has taken both answers
GrantReturn ==
    /\ gcall.op = "GrantMore"
    /\ gcall' = NoGCall
    /\ UNCHANGED <<disk, roles, built, call, vcall, pcall, mcall, procs>>

NextGrant == ConfigOnce \/ DoGrantMore \/ GrantReturn

SpecGrant == InitGrant /\ [][NextGrant]_vars

(***************************************************************************)
(* Properties of the decision engine and the config compiler (Spec).       *)
(***************************************************************************)
Concrete == {Read, Create, Update, Delete}

\* the last Can call found its permission in a non-nil role
Found == call.op = "Can" /\ ~call.role.isNil /\ call.permission \in DOMAIN call.role.m

\* the ability set of the permission the last Can call looked up
Granted == call.role.m[call.permission].Abilities

\* C1: when the looked-up permission holds All or Skip, Can returns true for
\* every requested concrete ability, whatever the predicate (true, false or
\* nil) and whether or not the requested ability is itself in the set.
C1_AllOrSkipAuthorizes ==
    (Found /\ (All \in Granted \/ Skip \in Granted) /\ call.ability \in Concrete)
        => call.ret = TRUE

\* C1 witness: All granted, Read not granted, Read requested with a predicate
\* that returns false, and the answer is true.
C1_Witness ==
    /\ Found
    /\ All \in Granted
    /\ Read \notin Granted
    /\ call.ability = Read
    /\ call.compare = "false"
    /\ call.ret = TRUE

\* C2: when the permission holds the requested concrete ability and neither
\* All nor Skip, and the predicate is not nil, Can returns exactly what the
\* predicate returns.
C2_PredicateDecides ==
    (/\ Found
     /\ call.ability \in Concrete
     /\ call.ability \in Granted
     /\ All \notin Granted
     /\ Skip \notin Granted
     /\ call.compare # "nil")
        => call.ret = (call.compare = "true")

\* C2 witness: Update granted without All or Skip, the predicate returns
\* false, and so does Can.
C2_Witness ==
    /\ Found
    /\ call.ability = Update
    /\ Update \in Granted
    /\ All \notin Granted
    /\ Skip \notin Granted
    /\ call.compare = "false"
    /\ call.ret = FALSE

\* C3: every lookup miss is a denial: Can returns false, whatever the
\* predicate, when the role is nil, when the role is empty, when the
\* permission name is no key of the role, or when the ability set holds
\* neither the requested ability nor All nor Skip.
C3_MissDenies ==
    (/\ call.op = "Can"
     /\ \/ call.role.isNil
        \/ DOMAIN call.role.m = {}
        \/ call.permission \notin DOMAIN call.role.m
        \/ (call.ability \notin Granted /\ All \notin Granted /\ Skip \notin Granted))
        => call.ret = FALSE

\* C3 witness: only Read is granted, Create is requested with a predicate that
\* returns true, and the answer is false.
C3_Witness ==
    /\ Found
    /\ Granted = {Read}
    /\ call.ability = Create
    /\ call.compare = "true"
    /\ call.ret = FALSE

\* C4: when the permission grants the requested concrete ability and neither
\* All nor Skip, Can with a nil predicate returns false.
C4_NilPredicateDenies ==
    (/\ Found
     /\ call.ability \in Concrete
     /\ call.ability \in Granted
     /\ All \notin Granted
     /\ Skip \notin Granted
     /\ call.compare = "nil")
        => call.ret = FALSE

\* C4 witness: Read granted, Read requested with a nil predicate, denied.
C4_Witness ==
    /\ Found
    /\ Granted = {Read}
    /\ call.ability = Read
    /\ call.compare = "nil"
    /\ call.ret = FALSE

\* C5: a request for the denial sentinel None is always denied: Can returns
\* false for every role, permission name and predicate, whatever abilities
\* the permission holds.
C5_NoneAlwaysDenied ==
    (call.op = "Can" /\ call.ability = None) => call.ret = FALSE

\* s spells the word w in some mix of upper and lower case
IsCaseMix(s, w) ==
    /\ Len(s) = Len(w)
    /\ \A i \in 1..Len(w) : s[i] = w[i] \/ s[i] \in UpperForms(w[i])

\* a string that spells none of the six ability names in any mix of case
Unknown(s) == \A a \in Granting : ~IsCaseMix(s, CanonicalName(a))

\* what an ability string of the config stands for
Parse(s) ==
    IF Unknown(s) THEN None
    ELSE CHOOSE a \in Granting : IsCaseMix(s, CanonicalName(a))

\* the keys derived from the routes of the declared permission j of role v
DerivedKeys(v, j) == {j \o "_" \o v[j].Routes[i] : i \in 1..Len(v[j].Routes)}

\* the key j of role v is written by no other declaration of v
OwnKey(v, j) == \A j2 \in (DOMAIN v) \ {j} : j \notin DerivedKeys(v, j2)

NoCollision(v) ==
    \A j \in DOMAIN v : \A d \in DerivedKeys(v, j) :
        /\ d \notin DOMAIN v
        /\ \A j2 \in (DOMAIN v) \ {j} : d \notin DerivedKeys(v, j2)

\* C7: route fan-out: when no derived key collides with another key of the
\* role, the compiled role holds exactly the declared names and their
\* name_route keys, each declared name and each of its route keys maps to
\* the Permission with the parses of the declared abilities and the declared
\* resource, and Can answers alike for the name and for each route key.
C7_RouteFanOut ==
    built =>
        \A k \in DOMAIN disk : NoCollision(disk[k]) =>
            /\ k \in DOMAIN roles
            /\ DOMAIN roles[k] =
                   (DOMAIN disk[k]) \cup UNION {DerivedKeys(disk[k], j) : j \in DOMAIN disk[k]}
            /\ \A j \in DOMAIN disk[k] :
                  /\ roles[k][j] =
                         [Abilities |-> {Parse(disk[k][j].Abilities[i]) :
                                            i \in 1..Len(disk[k][j].Abilities)},
                          Resource |-> disk[k][j].Resource]
                  /\ \A d \in DerivedKeys(disk[k], j) :
                        /\ roles[k][d] = roles[k][j]
                        /\ \A a \in Abilities, c \in Predicates :
                              Can(MakeRole(roles[k]), d, a, c) = Can(MakeRole(roles[k]), j, a, c)

\* C7 witness: "users_42" is declared with the route "x" and a resource, no
\* key collides, and the compiled role holds "users_42_x" with that resource.
C7_Witness ==
    /\ built
    /\ "admin" \in DOMAIN disk
    /\ "users_42" \in DOMAIN disk["admin"]
    /\ disk["admin"]["users_42"].Routes = <<"x">>
    /\ disk["admin"]["users_42"].Resource = "account"
    /\ NoCollision(disk["admin"])
    /\ "users_42_x" \in DOMAIN roles["admin"]
    /\ roles["admin"]["users_42_x"].Resource = "account"

C9_MethodMapping ==
    vcall.op = "BuildFromMethod" =>
        /\ vcall.m = "GET" => vcall.retA = Read
        /\ vcall.m = "POST" => vcall.retA = Create
        /\ vcall.m = "PUT" => vcall.retA = Update
        /\ vcall.m = "PATCH" => vcall.retA = Update
        /\ vcall.m = "DELETE" => vcall.retA = Delete
        /\ vcall.m = "OPTIONS" => vcall.retA = Skip
        /\ vcall.m \notin {"GET", "POST", "PUT", "PATCH", "DELETE", "OPTIONS"} =>
              vcall.retA = None
        /\ vcall.retA # All

\* C9 witness: PATCH gives Update.
C9_Witness ==
    /\ vcall.op = "BuildFromMethod"
    /\ vcall.m = "PATCH"
    /\ vcall.retA = Update

(***************************************************************************)
(* Properties of PermissionFromPath (SpecPath).                            *)
(***************************************************************************)
\* some route-parameter value of the call is a whole segment of its path
RemovesSegment ==
    \E i \in 1..Len(pcall.values) :
        /\ pcall.values[i] # <<>>
        /\ \E a \in 1..Len(pcall.p) :
              /\ pcall.p[a] = "/"
              /\ a + Len(pcall.values[i]) <= Len(pcall.p)
              /\ SubSeq(pcall.p, a + 1, a + Len(pcall.values[i])) = pcall.values[i]
              /\ (a + Len(pcall.values[i]) = Len(pcall.p)
                  \/ pcall.p[a + Len(pcall.values[i]) + 1] = "/")

\* the key k is flat: no slash, and no leading, trailing or doubled underscore
FlatKey(k) ==
    /\ \A i \in 1..Len(k) : k[i] # "/"
    /\ k # <<>> => (k[1] # "_" /\ k[Len(k)] # "_")
    /\ \A i \in 1..(Len(k) - 1) : ~(k[i] = "_" /\ k[i + 1] = "_")

\* C10: PermissionFromPath yields the remaining segments joined by single
\* underscores: "/" gives "index", "/v1/users/42/" with the value "42"
\* gives "users", "/v1/users/42/comments" with the value "42" gives
\* "users_comments", and whenever a route-parameter segment was removed the
\* key has no slash and no leading, trailing or doubled underscore.
C10_FlatPermissionKey ==
    (pcall.op = "PermissionFromPath" /\ ~pcall.panic) =>
        /\ pcall.p = <<"/">> => pcall.ret = sIndex
        /\ (pcall.p = Join(<<sV1, sUsers, s42>>) \o <<"/">> /\ pcall.values = <<s42>>)
              => pcall.ret = sUsers
        /\ (pcall.p = Join(<<sV1, sUsers, s42, sComments>>) /\ pcall.values = <<s42>>)
              => pcall.ret = sUsers \o <<"_">> \o sComments
        /\ RemovesSegment => FlatKey(pcall.ret)

(***************************************************************************)
(* Properties of the Manage-era engines (SpecManage).                      *)
(***************************************************************************)
\* C11: in the Manage-era engines (DefaultCan, reached through Can with a
\* nil CanFn, and the Can of the version with Manage) a permission whose
\* ability set holds Manage allows all the abilities of the permission: a
\* request for Read, Create, Update or Delete on it is authorized.
C11_ManageAllowsAll ==
    (/\ mcall.op \in {"DefaultCan", "ManageCan"}
     /\ mcall.can = "nil"
     /\ ~mcall.role.isNil
     /\ mcall.permission \in DOMAIN mcall.role.m
     /\ Manage \in mcall.role.m[mcall.permission].Abilities
     /\ \/ mcall.op = "DefaultCan"
           /\ mcall.ability \in {DefaultRead, DefaultCreate, DefaultUpdate, DefaultDelete}
        \/ mcall.op = "ManageCan"
           /\ mcall.ability \in {ManageRead, ManageCreate, ManageUpdate, ManageDelete})
        => mcall.ret = TRUE

(***************************************************************************)
(* Properties of concurrent Can calls (SpecConc).                          *)
(***************************************************************************)
\* the answer of the call of caller c when it runs alone on the Roles value
Alone(c) ==
    Can(RolesLookup(roles, procs[c].roleName), procs[c].permission,
        procs[c].ability, procs[c].compare)

\* C12: Can is read-only on its inputs: no step in which a caller moves
\* inside Can changes the Roles value (or the config it came from), and in
\* every interleaving of the callers each finished call has the answer the
\* same call gives when it runs alone.
C12_CanReadOnly ==
    /\ [](\A c \in Callers : procs[c].pc = "done" => procs[c].ret = Alone(c))
    /\ [][(procs' # procs) => (roles' = roles /\ disk' = disk)]_vars

\* C12 witness: the two callers are inside Can at once on the same
\* permission, one finished with true and one between two statements.
C12_Witness ==
    /\ procs["c1"].pc = "membership"
    /\ procs["c2"].pc = "done"
    /\ procs["c2"].ret = TRUE
    /\ procs["c1"].roleName = procs["c2"].roleName
    /\ procs["c1"].permission = procs["c2"].permission

\* the only path on which Can may ask the predicate of caller c
MayAsk(c) ==
    /\ ~RoleOf(c).isNil
    /\ procs[c].permission \in DOMAIN RoleOf(c).m
    /\ procs[c].ability \in Concrete
    /\ procs[c].ability \in AbilitiesOf(c)
    /\ All \notin AbilitiesOf(c)
    /\ Skip \notin AbilitiesOf(c)

\* C13: in one Can call the predicate is invoked at most once, and only when
\* the role is not nil, the permission exists, the requested ability is one
\* of Read, Create, Update, Delete and is in the set, and the set holds
\* neither All nor Skip; on every other path it is never invoked.
C13_PredicateDiscipline ==
    \A c \in Callers :
        /\ procs[c].invoked \in {0, 1}
        /\ procs[c].invoked = 1 => MayAsk(c)
        /\ (procs[c].pc = "done" /\ ~MayAsk(c)) => procs[c].invoked = 0

\* C13 witness: a finished call that asked its predicate once, and a
\* finished call on a permission with All that never asked.
C13_Witness ==
    /\ procs["c1"].pc = "done"
    /\ procs["c1"].invoked = 1
    /\ procs["c2"].pc = "done"
    /\ procs["c2"].permission = "users"
    /\ procs["c2"].compare = "false"
    /\ procs["c2"].invoked = 0
    /\ procs["c2"].ret = TRUE

(***************************************************************************)
(* Determinism of the config compiler (Spec).                              *)
(***************************************************************************)
\* the visiting orders of the permissions of every role of the config c
PermOrders(c) ==
    {po \in [DOMAIN c -> UNION {Orders(DOMAIN c[k]) : k \in DOMAIN c}] :
        \A k \in DOMAIN c : po[k] \in Orders(DOMAIN c[k])}

\* C14: the config compiler is a pure function of its input: whatever the
\* order in which the roles and permissions are visited, and also when a
\* route-derived key equals another declared name or derived key, every run
\* of Config on the same DiskRoles yields the same Roles value.
C14_ConfigDeterministic ==
    built =>
        \A roleOrder \in Orders(DOMAIN disk) : \A permOrder \in PermOrders(disk) :
            roles = Config(disk, roleOrder, permOrder)

(***************************************************************************)
(* More properties of PermissionFromPath (SpecPath).                       *)
(***************************************************************************)
\* the first segment of the path p: what stands between its leading slash
\* and the next slash or the end
FirstSegment(p) ==
    LET stops == {i \in 2..Len(p) : p[i] = "/"}
        end == IF stops = {} THEN Len(p) + 1
               ELSE CHOOSE i \in stops : \A j \in stops : i <= j
    IN SubSeq(p, 2, end - 1)

\* s begins with pre
IsPrefix(pre, s) == Len(pre) <= Len(s) /\ SubSeq(s, 1, Len(pre)) = pre

\* C15: PermissionFromPath strips the API-version prefix only when it is a
\* whole leading segment: a path whose first segment is exactly "v1" loses
\* that segment (and nothing else, when no route value is removed), while a
\* path whose first segment merely begins with "v1" keeps its first segment
\* intact at the start of the key.
C15_VersionSegmentOnly ==
    (pcall.op = "PermissionFromPath" /\ ~pcall.panic /\ pcall.values = <<>>) =>
        /\ FirstSegment(pcall.p) = sV1 =>
              Len(pcall.ret) = Len(pcall.p) - 4 - (IF pcall.p[Len(pcall.p)] = "/" THEN 1 ELSE 0)
        /\ (IsPrefix(sV1, FirstSegment(pcall.p)) /\ FirstSegment(pcall.p) # sV1) =>
              IsPrefix(FirstSegment(pcall.p), pcall.ret)

\* C16: PermissionFromPath never indexes outside its string: for every path
\* that begins with "/" and every list of route-parameter values it returns
\* a string and does not fail with an out-of-range slice.
C16_NeverOutOfRange ==
    (pcall.op = "PermissionFromPath" /\ pcall.p # <<>> /\ pcall.p[1] = "/") => ~pcall.panic

(***************************************************************************)
(* Monotonicity of Can in the grants (SpecGrant).                          *)
(***************************************************************************)
\* C17: granting more never revokes: for every role, permission name,
\* requested ability and predicate with a fixed return value, when Can
\* returns true it still returns true after any ability is added to a
\* permission's ability set or any new permission is added to the role.
C17_GrantingNeverRevokes ==
    (gcall.op = "GrantMore" /\ gcall.ret = TRUE) => gcall.ret2 = TRUE

\* C17 witness: Read is granted and allowed by the predicate, None is added
\* to the same ability set, and Read is still allowed.
C17_Witness ==
    /\ gcall.op = "GrantMore"
    /\ gcall.kind = "ability"
    /\ gcall.permission = "users"
    /\ gcall.role.m["users"].Abilities = {Read}
    /\ gcall.after.m["users"].Abilities = {Read, None}
    /\ gcall.ability = Read
    /\ gcall.compare = "true"
    /\ gcall.ret = TRUE
    /\ gcall.ret2 = TRUE

====
